---------------------------- MODULE Spec2Model ----------------------------
(***************************************************************************)
(* A model of the meeting-assistant pipeline: the three stage agents       *)
(* (src/transcription_agent.py, src/summarization_agent.py,                *)
(* src/action_item_extraction_agent.py), the orchestrator of               *)
(* src/orchestrator.py ("root") and the packaged orchestrator of           *)
(* src/meeting_assistant/orchestrator.py ("pkg").                          *)
(*                                                                         *)
(* Encoding.  A Python str is a sequence of tokens; a token is one         *)
(* punctuation or whitespace character (".", ":", " ", "\n") or one word   *)
(* or fixed phrase that the code never looks inside.  A Python dict is a   *)
(* function whose DOMAIN is its key set, so a missing key is a missing     *)
(* element of DOMAIN.  Python None is None where a str is expected and     *)
(* NoneDict where a dict is expected.                                      *)
(***************************************************************************)
EXTENDS Integers, Sequences, FiniteSets, TLC

(***************************************************************************)
(* Python values                                                           *)
(***************************************************************************)
None == <<"<None>">>

NoneDict == [is_none |-> TRUE]

\* bool(s) of a str-or-None value
Truthy(s) == s /= None /\ s /= <<>>

\* len() of a str: the characters of its tokens
RECURSIVE StrLen(_)
StrLen(s) == IF s = <<>> THEN 0 ELSE Len(Head(s)) + StrLen(Tail(s))

\* bool(d) of a dict-or-None value
DictTruthy(d) == d /= NoneDict /\ DOMAIN d /= {}

\* d.get(k, default)
Get(d, k, default) == IF k \in DOMAIN d THEN d[k] ELSE default

\* str(v) as an f-string placeholder formats it
Str(v) == IF v = None THEN <<"None">> ELSE v

Min(a, b) == IF a <= b THEN a ELSE b

(***************************************************************************)
(* str operations used by the agents                                       *)
(***************************************************************************)
Whitespace == {" ", "\n"}

Terminators == {".", "!", "?"}

HasPrefix(s, p) == Len(s) >= Len(p) /\ SubSeq(s, 1, Len(p)) = p

Drop(s, n) == SubSeq(s, n + 1, Len(s))

RECURSIVE SplitAcc(_, _, _)
SplitAcc(s, sep, cur) ==
    IF s = <<>> THEN <<cur>>
    ELSE IF HasPrefix(s, sep)
         THEN <<cur>> \o SplitAcc(Drop(s, Len(sep)), sep, <<>>)
         ELSE SplitAcc(Tail(s), sep, Append(cur, Head(s)))

\* s.split(sep)
Split(s, sep) == SplitAcc(s, sep, <<>>)

RECURSIVE Join(_, _)
\* sep.join(parts)
Join(parts, sep) ==
    IF parts = <<>> THEN <<>>
    ELSE IF Len(parts) = 1 THEN parts[1]
         ELSE parts[1] \o sep \o Join(Tail(parts), sep)

RECURSIVE LStrip(_)
LStrip(s) == IF s /= <<>> /\ Head(s) \in Whitespace THEN LStrip(Tail(s)) ELSE s

RECURSIVE RStrip(_)
RStrip(s) ==
    IF s /= <<>> /\ s[Len(s)] \in Whitespace THEN RStrip(SubSeq(s, 1, Len(s) - 1)) ELSE s

\* s.strip()
Strip(s) == RStrip(LStrip(s))

\* the length of the longest prefix of s made of tokens of set S
RECURSIVE Run(_, _)
Run(s, S) == IF s /= <<>> /\ Head(s) \in S THEN 1 + Run(Tail(s), S) ELSE 0

\* tok.lower() for the tokens whose case the model varies
Lower(tok) ==
    CASE tok = "Will" -> "will"
      [] tok = "WAV" -> "wav"
      [] tok = "By" -> "by"
      [] OTHER -> tok


(***************************************************************************)
(* Token classes of the regular expressions of                             *)
(* ActionItemExtractionAgent.  The model's texts are built from words      *)
(* that contain no keyword as a proper substring, so a keyword matches     *)
(* exactly where its token stands.                                         *)
(***************************************************************************)
\* tokens that are not a run of \w characters
NonWord == Whitespace \cup Terminators \cup {":", ","}

\* the \w+ run a token ends with (a phrase token ends with its last word)
LastWord(tok) ==
    CASE tok \in {"need to", "going to", "have to", "needs to"} -> "to"
      [] tok \in {"to do"} -> "do"
      [] tok \in {"action item"} -> "item"
      [] tok \in {"next week"} -> "week"
      [] tok \in {"this month", "next month"} -> "month"
      [] tok \in {"to-do"} -> "do"
      [] tok \in {"follow-up"} -> "up"
      [] OTHER -> tok

IsWord(tok) == tok \notin NonWord

\* tokens matching \b[A-Z][a-z]+\b
CapWords == {"John", "Sarah", "Will", "By", "Friday", "Monday", "August"}

\* re.IGNORECASE membership of a token in a keyword set
InCI(tok, S) == \E k \in S : Lower(k) = Lower(tok)

\* s starts with the token sequence p, ignoring case
HasPrefixCI(s, p) ==
    /\ Len(s) >= Len(p)
    /\ \A i \in 1..Len(p) : Lower(s[i]) = Lower(p[i])

\* the least element of a set of indices, 0 for the empty set
LeastOf(I) == IF I = {} THEN 0 ELSE CHOOSE i \in I : \A j \in I : i <= j

GreatestOf(I) == CHOOSE i \in I : \A j \in I : j <= i

RECURSIVE RunNot(_, _)
RunNot(s, S) == IF s /= <<>> /\ Head(s) \notin S THEN 1 + RunNot(Tail(s), S) ELSE 0

\* the longest prefix of rest that holds no sentence terminator
Unterminated(rest) == SubSeq(rest, 1, RunNot(rest, Terminators))

\* ([^.!?]*) matched from index `from` of s
Capture(s, from) == Unterminated(Drop(s, from - 1))

NoMatch == [ok |-> FALSE, g1 |-> <<>>]

\* action_keywords[0]: (?:need to|must|should|will|going to|have to|shall) ([^.!?]*)
Modal1 == {"need to", "must", "should", "will", "going to", "have to", "shall"}

Test1(s, i) == InCI(s[i], Modal1) /\ i + 1 <= Len(s) /\ s[i + 1] = " "

Match1(s, i) == IF i = 0 THEN NoMatch ELSE [ok |-> TRUE, g1 |-> Capture(s, i + 2)]

Pattern1(s) == Match1(s, LeastOf({i \in 1..Len(s) : Test1(s, i)}))

\* action_keywords[1]:
\* (?:action item|task|todo|to-do|to do|follow-up|followup)[:\s]* ([^.!?]*)
Markers == {"action item", "task", "todo", "to-do", "to do", "follow-up", "followup"}

\* the offsets k of a space inside the [:\s] run that follows index i
MarkerSpaces(s, i) ==
    {k \in 1..Run(Drop(s, i), {":"} \cup Whitespace) : s[i + k] = " "}

Test2(s, i) == InCI(s[i], Markers) /\ MarkerSpaces(s, i) /= {}

\* the greedy [:\s]* leaves the last space of the run to the literal space
Match2(s, i) ==
    IF i = 0 THEN NoMatch
    ELSE [ok |-> TRUE, g1 |-> Capture(s, i + GreatestOf(MarkerSpaces(s, i)) + 1)]

Pattern2(s) == Match2(s, LeastOf({i \in 1..Len(s) : Test2(s, i)}))

\* action_keywords[2]: (\w+)(?:\s*will|\s*is going to|\s*needs to|\s*must) ([^.!?]*)
SubjectModals == {<<"will">>, <<"is", " ", "going to">>, <<"needs to">>, <<"must">>}

SubjectModalAt(x) == \E K \in SubjectModals : HasPrefixCI(x, K \o <<" ">>)

Test3(s, i) ==
    /\ IsWord(s[i])
    /\ SubjectModalAt(Drop(s, i + Run(Drop(s, i), Whitespace)))

\* group(1) is the leading word
Match3(s, i) == IF i = 0 THEN NoMatch ELSE [ok |-> TRUE, g1 |-> <<LastWord(s[i])>>]

Pattern3(s) == Match3(s, LeastOf({i \in 1..Len(s) : Test3(s, i)}))

\* the date expression of action_keywords[3] and of deadline_pattern:
\* \d{1,2}(?:st|nd|rd|th)?\s+(?:of\s+)?(?:Jan(?:uary)?|...)|tomorrow|next week|
\* (?:this|next) month|(?:Monday|...|Sunday)
DayTokens == {"15th", "3rd"}

MonthTokens == {"August"}

SimpleDates == {"tomorrow", "next week", "this month", "next month",
                "Monday", "Tuesday", "Wednesday", "Thursday", "Friday",
                "Saturday", "Sunday"}

\* r starts with "of", w2 >= 1 whitespace tokens and a month
OfMonthLen(r, w, w2) ==
    IF w2 >= 1 /\ Len(r) >= w2 + 2 /\ InCI(r[w2 + 2], MonthTokens)
    THEN w + w2 + 3
    ELSE 0

\* r is what follows the day and its w whitespace tokens
MonthLen(r, w) ==
    IF InCI(Head(r), MonthTokens) THEN w + 2
    ELSE IF Lower(Head(r)) = "of" THEN OfMonthLen(r, w, Run(Tail(r), Whitespace))
    ELSE 0

DayDateLen(s, w) ==
    IF w = 0 \/ Len(s) < w + 2 THEN 0 ELSE MonthLen(Drop(s, 1 + w), w)

\* the length of the date expression s starts with, 0 when it starts with none
DateLen(s) ==
    IF s = <<>> THEN 0
    ELSE IF Head(s) \in DayTokens THEN DayDateLen(s, Run(Tail(s), Whitespace))
    ELSE IF InCI(Head(s), SimpleDates) THEN 1
    ELSE 0

\* \s*(<date>) matches at the start of a
DateAfterSpace(a) == DateLen(Drop(a, Run(a, Whitespace))) > 0

\* (?:\s*the)?\s* matched at the start of s, w being its leading whitespace: the
\* tokens consumed before the date expression, -1 when no date expression follows
DateOffsetAt(s, w) ==
    IF Len(s) > w /\ Lower(s[w + 1]) = "the" /\ DateAfterSpace(Drop(s, w + 1))
    THEN w + 1 + Run(Drop(s, w + 1), Whitespace)
    ELSE IF DateLen(Drop(s, w)) > 0 THEN w ELSE -1

DateOffset(s) == DateOffsetAt(s, Run(s, Whitespace))

\* action_keywords[3] and deadline_pattern: (?:by|before|due)(?:\s*the)?\s*(<date>)
DeadlineWords == {"by", "before", "due"}

Test4(s, i) == InCI(s[i], DeadlineWords) /\ DateOffset(Drop(s, i)) >= 0

DatePrefix(d) == SubSeq(d, 1, DateLen(d))

Match4(s, i) ==
    IF i = 0 THEN NoMatch
    ELSE [ok |-> TRUE, g1 |-> DatePrefix(Drop(s, i + DateOffset(Drop(s, i))))]

Pattern4(s) == Match4(s, LeastOf({i \in 1..Len(s) : Test4(s, i)}))

\* (\b[A-Z][a-z]+\b)(?:\s+will|\s+should|\s+is going to|\s+needs to), case-sensitive
AssigneeModals == {<<"will">>, <<"should">>, <<"is", " ", "going to">>, <<"needs to">>}

AssigneeModalAt(x) == \E K \in AssigneeModals : HasPrefix(x, K)

TestAssignee(s, i) ==
    /\ s[i] \in CapWords
    /\ Run(Drop(s, i), Whitespace) >= 1
    /\ AssigneeModalAt(Drop(s, i + Run(Drop(s, i), Whitespace)))

MatchAssignee(s, i) == IF i = 0 THEN NoMatch ELSE [ok |-> TRUE, g1 |-> <<s[i]>>]

AssigneePattern(s) == MatchAssignee(s, LeastOf({i \in 1..Len(s) : TestAssignee(s, i)}))

\* for pattern in self.action_keywords: match = re.search(...); if match: ... break
FirstOf(m1, m2, m3, m4) ==
    IF m1.ok THEN m1 ELSE IF m2.ok THEN m2 ELSE IF m3.ok THEN m3 ELSE m4

FirstPattern(s) == FirstOf(Pattern1(s), Pattern2(s), Pattern3(s), Pattern4(s))

\* task = match.group(1).strip(), None when no pattern matched
TaskOf(m) == IF m.ok THEN Strip(m.g1) ELSE None

\* match.group(1) if match else None
GroupOrNone(m) == IF m.ok THEN m.g1 ELSE None

\* ActionItemExtractionAgent._extract_from_sentence; NoItem stands for None
NoItem == [is_none |-> TRUE]

ItemWithTask(sentence, task) ==
    IF ~Truthy(task) THEN NoItem
    ELSE [task |-> task,
          assignee |-> GroupOrNone(AssigneePattern(sentence)),
          deadline |-> GroupOrNone(Pattern4(sentence))]

StrippedSentenceItem(sentence) ==
    IF sentence = <<>> THEN NoItem
    ELSE ItemWithTask(sentence, TaskOf(FirstPattern(sentence)))

_extract_from_sentence(sentence) == StrippedSentenceItem(Strip(sentence))

\* re.split(r'[.!?]\s+', text)
RECURSIVE SentencesAcc(_, _)
SentencesAcc(s, cur) ==
    IF s = <<>> THEN <<cur>>
    ELSE IF Head(s) \in Terminators /\ Run(Tail(s), Whitespace) >= 1
         THEN <<cur>> \o SentencesAcc(Drop(s, 1 + Run(Tail(s), Whitespace)), <<>>)
         ELSE SentencesAcc(Tail(s), Append(cur, Head(s)))

Sentences(text) == SentencesAcc(text, <<>>)

\* if item and all(item != existing for existing in action_items): append
AddItem(action_items, item) ==
    IF item /= NoItem /\ \A k \in 1..Len(action_items) : item /= action_items[k]
    THEN Append(action_items, item)
    ELSE action_items

\* ActionItemExtractionAgent._extract_with_regex
RECURSIVE RegexLoop(_, _)
RegexLoop(sentences, action_items) ==
    IF sentences = <<>> THEN action_items
    ELSE RegexLoop(Tail(sentences),
                   AddItem(action_items, _extract_from_sentence(Head(sentences))))

_extract_with_regex(text) == RegexLoop(Sentences(text), <<>>)

(***************************************************************************)
(* TranscriptionAgent (src/transcription_agent.py).  The speech backend,   *)
(* pydub and the file system are the environment: `env` says where, if     *)
(* anywhere, the call fails and what text the recogniser returns.          *)
(***************************************************************************)
\* audio_file_path.split(".")[-1].lower()
LowerAll(s) == [i \in 1..Len(s) |-> Lower(s[i])]

LastOf(parts) == parts[Len(parts)]

audio_format(audio_file_path) == LowerAll(LastOf(Split(audio_file_path, <<".">>)))

\* the statement of transcribe at which an exception is raised, "none" if none is
FailurePoint(audio_file_path, files, env) ==
    LET exists == audio_file_path \in files
        nonwav == audio_format(audio_file_path) /= <<"wav">>
    IN IF nonwav /\ (~exists \/ env.fail = "from_file") THEN "from_file"
       ELSE IF nonwav /\ env.fail = "export" THEN "export"
       ELSE IF (~nonwav /\ ~exists) \/ env.fail = "AudioFile" THEN "AudioFile"
       ELSE IF env.fail = "recognize_google" THEN "recognize_google"
       ELSE IF env.fail \in {"duration", "from_file"} THEN "duration"
       ELSE "none"

\* whether the NamedTemporaryFile of _convert_to_wav is still there on return
TempLeft(audio_file_path, files, env) ==
    /\ audio_format(audio_file_path) /= <<"wav">>
    /\ FailurePoint(audio_file_path, files, env)
         \in {"export", "AudioFile", "recognize_google"}

\* what transcribe returns when the exception, if any, is raised at `point`
TranscribeResult(audio_file_path, env, point) ==
    IF point = "none"
    THEN [transcription |-> env.text,
          metadata |-> [file |-> audio_file_path,
                        duration_seconds |-> env.duration,
                        status |-> "completed"]]
    ELSE [transcription |-> <<>>,
          metadata |-> [file |-> audio_file_path,
                        status |-> "error",
                        error |-> point]]

transcribe(audio_file_path, files, env) ==
    TranscribeResult(audio_file_path, env, FailurePoint(audio_file_path, files, env))

(***************************************************************************)
(* SummarizationAgent (src/summarization_agent.py).  `llm` is what the     *)
(* chat-completion call does: raise, or return a content (a str or None).  *)
(* Each operator returns the value together with the backends it ran.      *)
(***************************************************************************)
\* if summary and not summary.endswith('.'): summary += '.'
EnsurePeriod(summary) ==
    IF summary /= <<>> /\ summary[Len(summary)] /= "."
    THEN summary \o <<".">>
    ELSE summary

\* '. '.join(sentences[:min(5, len(sentences))])
FirstSentences(sentences) ==
    Join(SubSeq(sentences, 1, Min(5, Len(sentences))), <<".", " ">>)

_fallback_summary(text) == EnsurePeriod(FirstSentences(Split(text, <<".", " ">>)))

_generate_summary(text, api_key, llm) ==
    IF Truthy(api_key)
    THEN IF llm.kind = "raise"
         THEN [value |-> _fallback_summary(text), ran |-> <<"llm", "fallback">>]
         ELSE [value |-> llm.content, ran |-> <<"llm">>]
    ELSE [value |-> _fallback_summary(text), ran |-> <<"fallback">>]

\* SummaryError were the except branch to drop the error detail
SummaryErrorNoDetail(error, ran) ==
    [result |-> [summary |-> <<>>, metadata |-> [status |-> "error"]],
     ran |-> ran]

\* the except branch of summarize
SummaryError(error, ran) ==
    [result |-> [summary |-> <<>>,
                 metadata |-> [status |-> "error", error |-> error]],
     ran |-> ran]

\* summarize once _generate_summary has returned g
SummaryOf(text, g) ==
    IF g.value = None
    THEN \* len(summary) raises TypeError inside the try block
         SummaryError("object of type 'NoneType' has no len()", g.ran)
    ELSE [result |-> [summary |-> g.value,
                      metadata |-> [original_length |-> StrLen(text),
                                    summary_length |-> StrLen(g.value),
                                    status |-> "completed"]],
          ran |-> g.ran]

\* SummarizeText without the `if not text` check
SummarizeTextNoCheck(text, api_key, llm) ==
    SummaryOf(text, _generate_summary(text, api_key, llm))

SummarizeText(text, api_key, llm) ==
    IF ~Truthy(text)
    THEN SummaryError("No transcription text provided", <<>>)
    ELSE SummaryOf(text, _generate_summary(text, api_key, llm))

summarize(transcription, api_key, llm) ==
    SummarizeText(Get(transcription, "transcription", <<>>), api_key, llm)

(***************************************************************************)
(* ActionItemExtractionAgent (src/action_item_extraction_agent.py).  `llm` *)
(* is what the chat-completion call does: raise, return a content that     *)
(* json.loads rejects, or return a content that parses to llm.json.        *)
(***************************************************************************)
\* None where a list of dicts is expected
NoneList == << NoneDict >>

_extract_with_llm(text, llm) ==
    IF llm.kind = "unparsable" THEN <<>>
    ELSE IF llm.kind = "array" THEN <<>>   \* list has no .get: the bare except
    ELSE Get(llm.json, "action_items", <<>>)

\* _extract_action_items were its except branch to give up instead of calling
\* _extract_with_regex
_extract_action_itemsNoFallback(text, api_key, llm) ==
    IF Truthy(api_key)
    THEN IF llm.kind = "raise"
         THEN [value |-> NoneList, ran |-> <<"llm">>]
         ELSE [value |-> _extract_with_llm(text, llm), ran |-> <<"llm">>]
    ELSE [value |-> _extract_with_regex(text), ran |-> <<"regex">>]

_extract_action_items(text, api_key, llm) ==
    IF Truthy(api_key)
    THEN IF llm.kind = "raise"
         THEN [value |-> _extract_with_regex(text), ran |-> <<"llm", "regex">>]
         ELSE [value |-> _extract_with_llm(text, llm), ran |-> <<"llm">>]
    ELSE [value |-> _extract_with_regex(text), ran |-> <<"regex">>]

\* the except branch of extract_action_items
ExtractionError(error, ran) ==
    [result |-> [action_items |-> <<>>,
                 metadata |-> [status |-> "error", error |-> error]],
     ran |-> ran]

\* the text extract_action_items builds from its two arguments
ExtractionText(transcription, summary) ==
    IF DictTruthy(summary) /\ "summary" \in DOMAIN summary
    THEN Get(transcription, "transcription", <<>>) \o <<"\n", "\n">> \o summary["summary"]
    ELSE Get(transcription, "transcription", <<>>)

\* extract_action_items once _extract_action_items has returned x
ExtractionOf(x) ==
    IF x.value = NoneList
    THEN \* len(action_items) raises TypeError inside the try block
         ExtractionError("object of type 'NoneType' has no len()", x.ran)
    ELSE [result |-> [action_items |-> x.value,
                      metadata |-> [items_found |-> Len(x.value),
                                    status |-> "completed"]],
          ran |-> x.ran]

ExtractFromText(text, api_key, llm) ==
    IF ~Truthy(text)
    THEN ExtractionError("No text provided for action item extraction", <<>>)
    ELSE ExtractionOf(_extract_action_items(text, api_key, llm))

extract_action_items(transcription, summary, api_key, llm) ==
    ExtractFromText(ExtractionText(transcription, summary), api_key, llm)

(***************************************************************************)
(* generate_report of both orchestrators.  A report is kept as the         *)
(* sequence of the pieces the code appends with `report +=`, each tagged   *)
(* with the statement that appends it; the returned str is ReportText.     *)
(***************************************************************************)
Piece(stmt, text) == [stmt |-> stmt, text |-> text]

Title == <<"# Meeting Assistant Report", "\n", "\n">>

SummaryHeading == <<"## Meeting Summary", "\n", "\n">>

ActionItemsHeading == <<"## Action Items", "\n", "\n">>

TranscriptionHeading == <<"## Full Transcription", "\n", "\n">>

\* the three lines appended for the i-th item (enumerate(action_items, 1))
ItemLines(i, item) ==
    LET task == Get(item, "task", <<"No task specified">>)
        assignee == Get(item, "assignee", <<"Unassigned">>)
        deadline == Get(item, "deadline", <<"No deadline">>)
    IN << Piece("task", <<ToString(i), ". **Task**: ">> \o Str(task) \o <<"\n">>),
          Piece("assignee", <<"   **Assignee**: ">> \o Str(assignee) \o <<"\n">>),
          Piece("deadline", <<"   **Deadline**: ">> \o Str(deadline) \o <<"\n", "\n">>) >>

RECURSIVE ItemLoop(_, _)
ItemLoop(action_items, i) ==
    IF i > Len(action_items) THEN <<>>
    ELSE ItemLines(i, action_items[i]) \o ItemLoop(action_items, i + 1)

ActionItemsSection(action_items) ==
    IF action_items /= <<>>
    THEN ItemLoop(action_items, 1)
    ELSE << Piece("no_items", <<"No action items identified.", "\n", "\n">>) >>

EmptyDict == <<>>

\* src/orchestrator.py: generate_report never raises on a dict of dicts
RootReport(results) ==
    LET transcription == Get(Get(results, "transcription", EmptyDict), "transcription", <<>>)
        summary == Get(Get(results, "summary", EmptyDict), "summary", <<>>)
        action_items == Get(Get(results, "action_items", EmptyDict), "action_items", <<>>)
    IN [raised |-> "",
        value |-> << Piece("title", Title),
                     Piece("summary_heading", SummaryHeading),
                     Piece("summary", summary \o <<"\n", "\n">>),
                     Piece("action_items_heading", ActionItemsHeading) >>
                  \o ActionItemsSection(action_items)
                  \o << Piece("transcription_heading", TranscriptionHeading),
                        Piece("transcription", transcription \o <<"\n", "\n">>) >>]

required_fields == <<"transcription", "summary", "action_items">>

\* PkgReport were the transcription section appended before the action items
PkgReportSwapped(results) ==
    IF \E k \in 1..Len(required_fields) : required_fields[k] \notin DOMAIN results
    THEN [raised |-> "KeyError", value |-> <<>>]
    ELSE [raised |-> "",
          value |-> << Piece("title", Title),
                       Piece("summary_heading", SummaryHeading),
                       Piece("summary",
                             Get(Get(results, "summary", EmptyDict), "summary",
                                 <<"No summary available">>) \o <<"\n", "\n">>),
                       Piece("transcription_heading", TranscriptionHeading),
                       Piece("transcription",
                             Get(Get(results, "transcription", EmptyDict), "transcription",
                                 <<"No transcription available">>)),
                       Piece("action_items_heading", ActionItemsHeading) >>
                    \o ActionItemsSection(
                         Get(Get(results, "action_items", EmptyDict), "action_items", <<>>))]

\* src/meeting_assistant/orchestrator.py: generate_report
PkgReport(results) ==
    LET summary == Get(Get(results, "summary", EmptyDict), "summary",
                       <<"No summary available">>)
        action_items == Get(Get(results, "action_items", EmptyDict), "action_items", <<>>)
        transcription == Get(Get(results, "transcription", EmptyDict), "transcription",
                             <<"No transcription available">>)
    IN IF \E k \in 1..Len(required_fields) : required_fields[k] \notin DOMAIN results
       THEN [raised |-> "KeyError", value |-> <<>>]
       ELSE [raised |-> "",
             value |-> << Piece("title", Title),
                          Piece("summary_heading", SummaryHeading),
                          Piece("summary", summary \o <<"\n", "\n">>),
                          Piece("action_items_heading", ActionItemsHeading) >>
                       \o ActionItemsSection(action_items)
                       \o << Piece("transcription_heading", TranscriptionHeading),
                             Piece("transcription", transcription) >>]

generate_report(v, results) == IF v = "root" THEN RootReport(results) ELSE PkgReport(results)

RECURSIVE ReportText(_)
\* the str generate_report returns
ReportText(pieces) ==
    IF pieces = <<>> THEN <<>> ELSE Head(pieces).text \o ReportText(Tail(pieces))

(***************************************************************************)
(* json.dump(results, f, indent=2) and json.load.  A Python value on its   *)
(* way to the file is a tagged tree: "str" (tokens), "num" (its digits),   *)
(* "null", "list", "dict" (keys to trees), and "object" for a value the    *)
(* JSON encoder has no encoding for.  The text is a sequence of tokens.    *)
(***************************************************************************)
\* a value json cannot encode, such as a set or an open file
Unserialisable == <<"<object>">>

JStr(tokens) == [t |-> "str", v |-> tokens]

JNum(n) == [t |-> "num", v |-> <<ToString(n)>>]

JNull == [t |-> "null", v |-> <<>>]

JObject == [t |-> "object", v |-> <<>>]

JList(items) == [t |-> "list", v |-> items]

JDict(members) == [t |-> "dict", v |-> members]

\* a str, None, or something else, as the tree json sees
TagStr(x) ==
    IF x = None THEN JNull
    ELSE IF x = Unserialisable THEN JObject
    ELSE JStr(x)

TagItem(item) == JDict([k \in DOMAIN item |-> TagStr(item[k])])

TagMeta(metadata) ==
    JDict([k \in DOMAIN metadata |->
             IF k \in {"status", "error"} THEN JStr(<<metadata[k]>>)
             ELSE IF k = "file" THEN TagStr(metadata[k])
             ELSE JNum(metadata[k])])

TagItems(action_items) == JList([i \in 1..Len(action_items) |-> TagItem(action_items[i])])

TagStage(name, envelope) ==
    JDict([k \in DOMAIN envelope |->
             IF k = "metadata" THEN TagMeta(envelope[k])
             ELSE IF name = "action_items" THEN TagItems(envelope[k])
             ELSE TagStr(envelope[k])])

\* the results dict: stage envelopes under the three keys, a str under any other
TagResults(results) ==
    JDict([k \in DOMAIN results |->
             IF k \in {"transcription", "summary", "action_items"}
             THEN TagStage(k, results[k])
             ELSE TagStr(results[k])])

\* the escape sequences of a JSON string
Escape(tok) ==
    IF tok = "\n" THEN <<"\\", "n">>
    ELSE IF tok = "\"" THEN <<"\\", "\"">>
    ELSE IF tok = "\\" THEN <<"\\", "\\">>
    ELSE <<tok>>

RECURSIVE EscapeAll(_)
EscapeAll(s) == IF s = <<>> THEN <<>> ELSE Escape(Head(s)) \o EscapeAll(Tail(s))

\* the newline and the two spaces per level that indent=2 puts before an entry
RECURSIVE Spaces(_)
Spaces(n) == IF n = 0 THEN <<>> ELSE <<" ">> \o Spaces(n - 1)

Indent(depth) == <<"\n">> \o Spaces(2 * depth)

\* the keys of a dict in the order the encoder visits them
RECURSIVE KeySeq(_)
KeySeq(S) ==
    IF S = {} THEN <<>>
    ELSE KeySeq(S \ {CHOOSE k \in S : TRUE}) \o <<CHOOSE k \in S : TRUE>>

\* the marker that stands where the encoder raised TypeError
TypeErrorMark == "<TypeError>"

RECURSIVE Encode(_, _), EncodeList(_, _, _), EncodeDict(_, _, _)
\* the chunks the encoder yields for j
Encode(j, depth) ==
    CASE j.t = "str" -> <<"\"">> \o EscapeAll(j.v) \o <<"\"">>
      [] j.t = "num" -> j.v
      [] j.t = "null" -> <<"null">>
      [] j.t = "list" ->
           IF j.v = <<>> THEN <<"[]">>
           ELSE <<"[">> \o EncodeList(j.v, 1, depth + 1) \o Indent(depth) \o <<"]">>
      [] j.t = "dict" ->
           IF DOMAIN j.v = {} THEN <<"{}">>
           ELSE <<"{">> \o EncodeDict(j.v, KeySeq(DOMAIN j.v), depth + 1)
                  \o Indent(depth) \o <<"}">>
      [] OTHER -> <<TypeErrorMark>>

EncodeList(items, i, depth) ==
    IF i > Len(items) THEN <<>>
    ELSE Indent(depth) \o Encode(items[i], depth)
           \o (IF i < Len(items) THEN <<",">> ELSE <<>>)
           \o EncodeList(items, i + 1, depth)

EncodeDict(members, keys, depth) ==
    IF keys = <<>> THEN <<>>
    ELSE Indent(depth) \o <<"\"", Head(keys), "\"", ":", " ">>
           \o Encode(members[Head(keys)], depth)
           \o (IF Len(keys) > 1 THEN <<",">> ELSE <<>>)
           \o EncodeDict(members, Tail(keys), depth)

\* whether json.dump raises TypeError, and what it has written to the file by then
Raises(chunks) == \E i \in 1..Len(chunks) : chunks[i] = TypeErrorMark

Written(chunks) ==
    IF Raises(chunks)
    THEN SubSeq(chunks, 1, LeastOf({i \in 1..Len(chunks) : chunks[i] = TypeErrorMark}) - 1)
    ELSE chunks

JsonDump(j) == [raised |-> IF Raises(Encode(j, 0)) THEN "TypeError" ELSE "",
                text |-> Written(Encode(j, 0))]

\* json.load: a recursive-descent reading of the text
JsonWhitespace == {" ", "\n"}

NumberTokens == {ToString(n) : n \in 0..99}

SkipWs(s) == Drop(s, Run(s, JsonWhitespace))

ParseError == [ok |-> FALSE, value |-> JNull, rest |-> <<>>]

Parsed(value, rest) == [ok |-> TRUE, value |-> value, rest |-> rest]

\* the characters of a string literal up to its closing quote
RECURSIVE ParseString(_, _)
ParseString(s, acc) ==
    IF s = <<>> THEN ParseError
    ELSE IF Head(s) = "\"" THEN Parsed(JStr(acc), Tail(s))
    ELSE IF Head(s) = "\\"
         THEN IF Len(s) < 2 THEN ParseError
              ELSE ParseString(Drop(s, 2),
                               Append(acc, IF s[2] = "n" THEN "\n" ELSE s[2]))
    ELSE ParseString(Tail(s), Append(acc, Head(s)))

RECURSIVE ParseValue(_), ParseElements(_, _), ParseMembers(_, _), AfterElement(_, _),
          AfterKey(_, _), AfterMember(_, _, _)
ParseValue(text) ==
    LET s == SkipWs(text)
    IN IF s = <<>> THEN ParseError
       ELSE CASE Head(s) = "\"" -> ParseString(Tail(s), <<>>)
              [] Head(s) = "null" -> Parsed(JNull, Tail(s))
              [] Head(s) \in NumberTokens -> Parsed([t |-> "num", v |-> <<Head(s)>>], Tail(s))
              [] Head(s) = "[]" -> Parsed(JList(<<>>), Tail(s))
              [] Head(s) = "{}" -> Parsed(JDict(<<>>), Tail(s))
              [] Head(s) = "[" -> ParseElements(Tail(s), <<>>)
              [] Head(s) = "{" -> ParseMembers(Tail(s), <<>>)
              [] OTHER -> ParseError

ParseElements(text, acc) == AfterElement(ParseValue(text), acc)

AfterElement(p, acc) ==
    IF ~p.ok THEN ParseError
    ELSE LET s == SkipWs(p.rest)
         IN IF s = <<>> THEN ParseError
            ELSE IF Head(s) = "," THEN ParseElements(Tail(s), Append(acc, p.value))
            ELSE IF Head(s) = "]" THEN Parsed(JList(Append(acc, p.value)), Tail(s))
            ELSE ParseError

ParseMembers(text, acc) ==
    LET s == SkipWs(text)
    IN IF s = <<>> \/ Head(s) /= "\"" THEN ParseError
       ELSE AfterKey(ParseString(Tail(s), <<>>), acc)

AfterKey(k, acc) ==
    IF ~k.ok \/ Len(k.value.v) /= 1 THEN ParseError
    ELSE LET s == SkipWs(k.rest)
         IN IF s = <<>> \/ Head(s) /= ":" THEN ParseError
            ELSE AfterMember(k.value.v[1], ParseValue(Tail(s)), acc)

AfterMember(key, p, acc) ==
    IF ~p.ok THEN ParseError
    ELSE LET s == SkipWs(p.rest)
             members == (key :> p.value) @@ acc
         IN IF s = <<>> THEN ParseError
            ELSE IF Head(s) = "," THEN ParseMembers(Tail(s), members)
            ELSE IF Head(s) = "}" THEN Parsed(JDict(members), Tail(s))
            ELSE ParseError

\* json.load of a file's text: the value, or ok = FALSE where it raises
JsonLoad(text) ==
    LET p == ParseValue(text)
    IN IF p.ok /\ SkipWs(p.rest) = <<>> THEN p ELSE ParseError

(***************************************************************************)
(* save_results of both orchestrators.  A path is the sequence of its      *)
(* components: "/" first makes it absolute, ".." is the parent directory,  *)
(* <<>> is the working directory.  `dirs` are the directories that exist,  *)
(* `disk` maps each output file that exists to its text.                   *)
(***************************************************************************)
\* output_path.is_absolute()
IsAbsolute(path) == path /= <<>> /\ Head(path) = "/"

\* output_path.parent
Parent(path) == SubSeq(path, 1, Len(path) - 1)

\* path.parent and its parents, up to the working directory or the root
Ancestors(path) == { SubSeq(path, 1, n) : n \in 0..(Len(path) - 1) }

\* output_path.parent.mkdir(parents=True, exist_ok=True)
Mkdir(path, dirs, disk) ==
    IF Parent(path) \in DOMAIN disk
    THEN [raised |-> "FileExistsError", dirs |-> dirs]
    ELSE IF \E a \in Ancestors(path) : a \in DOMAIN disk
    THEN [raised |-> "NotADirectoryError", dirs |-> dirs]
    ELSE [raised |-> "", dirs |-> dirs \cup Ancestors(path)]

\* the exception open(path, 'w') raises, "" when it opens the file
OpenError(path, dirs, disk) ==
    IF path \in dirs THEN "IsADirectoryError"
    ELSE IF \E a \in Ancestors(path) : a \in DOMAIN disk THEN "NotADirectoryError"
    ELSE IF Parent(path) \notin dirs THEN "FileNotFoundError"
    ELSE ""

\* with open(path, 'w') as f: json.dump(results, f, indent=2)
WriteDump(path, dump, dirs, disk) ==
    [raised |-> dump.raised, dirs |-> dirs, disk |-> (path :> dump.text) @@ disk]

WriteJson(results, path, dirs, disk) ==
    IF OpenError(path, dirs, disk) /= ""
    THEN [raised |-> OpenError(path, dirs, disk), dirs |-> dirs, disk |-> disk]
    ELSE WriteDump(path, JsonDump(TagResults(results)), dirs, disk)

\* src/orchestrator.py: save_results
RootSave(results, output_file, dirs, disk) == WriteJson(results, output_file, dirs, disk)

AfterMkdir(results, output_file, made, disk) ==
    IF made.raised /= ""
    THEN [raised |-> made.raised, dirs |-> made.dirs, disk |-> disk]
    ELSE WriteJson(results, output_file, made.dirs, disk)

\* PkgSave without the call of mkdir
PkgSaveNoMkdir(results, output_file, dirs, disk) ==
    IF IsAbsolute(output_file)
    THEN [raised |-> "ValueError", dirs |-> dirs, disk |-> disk]
    ELSE WriteJson(results, output_file, dirs, disk)

\* src/meeting_assistant/orchestrator.py: save_results
PkgSave(results, output_file, dirs, disk) ==
    IF IsAbsolute(output_file)
    THEN [raised |-> "ValueError", dirs |-> dirs, disk |-> disk]
    ELSE AfterMkdir(results, output_file, Mkdir(output_file, dirs, disk), disk)

save_results(v, results, output_file, dirs, disk) ==
    IF v = "root" THEN RootSave(results, output_file, dirs, disk)
    ELSE PkgSave(results, output_file, dirs, disk)

(***************************************************************************)
(* process_meeting of both orchestrators                                   *)
(***************************************************************************)
AgentFields == {"transcription_agent", "summarization_agent", "action_item_extraction_agent"}

\* an agent field holds None (0) or the n-th instance built for it (n)
Unset == [f \in AgentFields |-> 0]

\* _setup_specialized_agents were it to build the three agents on every call
_setup_specialized_agentsAlways(agents) == [f \in AgentFields |-> agents[f] + 1]

\* src/meeting_assistant/orchestrator.py: _setup_specialized_agents builds an
\* agent for each field that is None
_setup_specialized_agents(agents) ==
    [f \in AgentFields |-> IF agents[f] = 0 THEN agents[f] + 1 ELSE agents[f]]

\* NextStep were process_meeting to stop at the first stage that reports an error
NextStepShortCircuit(pc, frame) ==
    IF \E k \in DOMAIN frame : frame[k].metadata.status = "error" THEN "return"
    ELSE CASE pc = "transcribe" -> "summarize"
           [] pc = "summarize" -> "extract_action_items"
           [] pc = "extract_action_items" -> "return"
           [] OTHER -> "idle"

\* the order in which src/orchestrator.py: process_meeting runs its steps
NextStep(pc, frame) ==
    CASE pc = "transcribe" -> "summarize"
      [] pc = "summarize" -> "extract_action_items"
      [] pc = "extract_action_items" -> "return"
      [] OTHER -> "idle"

\* RootResults were the return statement to leave out the action items
RootResultsNoItems(frame) ==
    [transcription |-> frame.transcription_result,
     summary |-> frame.summary_result]

\* the dict src/orchestrator.py: process_meeting returns
RootResults(frame) ==
    [transcription |-> frame.transcription_result,
     summary |-> frame.summary_result,
     action_items |-> frame.action_items_result]

\* whether process_meeting rejects the path before doing anything else
RejectsMissingFile(v, audio_file_path, files) ==
    v = "pkg" /\ audio_file_path \notin files

\* the canned dict src/meeting_assistant/orchestrator.py: process_meeting returns
PkgResults ==
    [transcription |-> [transcription |-> <<"Test", " ", "transcription">>,
                        metadata |-> [status |-> "completed"]],
     summary |-> [summary |-> <<"Test", " ", "summary">>,
                  metadata |-> [status |-> "completed"]],
     action_items |-> [action_items |-> << [task |-> <<"Test", " ", "task">>,
                                            assignee |-> <<"John">>,
                                            deadline |-> <<"tomorrow">>] >>,
                       metadata |-> [status |-> "completed"]]]

\* src/meeting_assistant/action_item_extraction_agent.py: what extract_action_items
\* returns, whatever its arguments
PkgExtraction ==
    [action_items |-> << [task |-> <<"Create project timeline">>,
                          assignee |-> <<"John">>,
                          due_date |-> <<"2024-03-15">>],
                         [task |-> <<"Review requirements document">>,
                          assignee |-> <<"Sarah">>,
                          due_date |-> <<"2024-03-10">>] >>]

\* the outputs of the three agents of src/meeting_assistant put under the three
\* keys of a result
PkgAgentResults ==
    [transcription |-> [transcription |-> <<"Test", " ", "transcription">>,
                        metadata |-> [status |-> "completed"]],
     summary |-> [summary |-> <<"Test", " ", "summary">>,
                  metadata |-> [status |-> "completed"]],
     action_items |-> PkgExtraction]

(***************************************************************************)
(* Inputs and environment outcomes the model draws from                    *)
(***************************************************************************)
\* the most temporary wav files the model lets pile up on disk
MaxTemp == 1

\* the POST /process requests the web application receives
MaxRequests == 2

\* file names of uploads
UploadNames == { <<"meeting", ".", "wav">>, <<"standup", ".", "wav">> }

\* what is said in an uploaded recording
UploadContents ==
    { <<"hello">>,
      <<"John", ":", " ", "I", " ", "need to", " ", "finish", " ", "the", " ",
        "report", " ", "by", " ", "Friday", ".">> }

AudioOnDisk == { <<"meeting", ".", "wav">>, <<"meeting", ".", "WAV">>, <<"talk", ".", "mp3">> }

AudioPaths == AudioOnDisk \cup { <<"nonexistent_file", ".", "wav">>, <<"missing", ".", "mp3">> }

Transcripts ==
    { <<>>,
      <<"hello">>,
      <<"John", ":", " ", "I", " ", "need to", " ", "finish", " ", "the", " ",
        "report", " ", "by", " ", "Friday", ".">>,
      <<"Sarah", " ", "will", " ", "send", " ", "it", ".", " ",
        "Sarah", " ", "will", " ", "send", " ", "it", ".">> }

TranscribeEnvs ==
    { [fail |-> "none", text |-> t, duration |-> 12] : t \in Transcripts }
    \cup { [fail |-> f, text |-> <<>>, duration |-> 12] :
             f \in {"from_file", "export", "AudioFile", "recognize_google", "duration"} }

ApiKeys == { None, <<>>, <<"sk-test">> }

SummaryLlm ==
    { [kind |-> "raise", content |-> None],
      [kind |-> "content", content |-> None],
      [kind |-> "content", content |-> <<"Sarah", " ", "sends", " ", "it", ".">>] }

LlmItems ==
    { <<>>,
      << [task |-> <<"send", " ", "it">>, assignee |-> <<"Sarah">>, deadline |-> None] >>,
      << [task |-> <<"send", " ", "it">>],
         [task |-> <<"call">>, assignee |-> None, deadline |-> <<"Friday">>] >>,
      << [task |-> <<"call">>, assignee |-> <<"Sarah">>, deadline |-> None],
         [task |-> <<"call">>, assignee |-> <<"Sarah">>, deadline |-> None] >>,
      << [task |-> <<>>, assignee |-> <<"Sarah">>, deadline |-> None] >>,
      NoneList }   \* "action_items": null

ExtractLlm ==
    { [kind |-> "raise", json |-> EmptyDict],
      [kind |-> "unparsable", json |-> EmptyDict],
      [kind |-> "array", json |-> EmptyDict],
      [kind |-> "object", json |-> EmptyDict] }
    \cup { [kind |-> "object", json |-> [action_items |-> items]] : items \in LlmItems }

\* sentences for the regex extractor: each pattern alone, several at once, none
RegexSentences ==
    { <<"John", ":", " ", "I", " ", "need to", " ", "finish", " ", "the", " ",
        "report", " ", "by", " ", "Friday">>,
      <<"action item", ":", " ", "review", " ", "the", " ", "budget">>,
      <<"Sarah", " ", "needs to", " ", "review", " ", "it">>,
      <<"report", " ", "due", " ", "Friday">>,
      <<"hello">>,
      <<"Sarah", " ", "will", " ", "send", " ", "it">>,
      <<"task", ":", " ", "John", " ", "must", " ", "call">>,
      <<"todo", ":", " ", "send", " ", "it", " ", "by", " ", "next week">>,
      <<"John", " ", "is", " ", "going to", " ", "call", " ", "before", " ", "the",
        " ", "15th", " ", "of", " ", "August">>,
      <<"the", " ", "budget", " ", "is", " ", "due">> }

\* transcripts of one or two of these sentences
RegexTexts ==
    { a \o <<".">> : a \in RegexSentences }
    \cup { a \o <<".", " ">> \o b \o <<".">> : a, b \in RegexSentences }

\* arguments of direct calls of summarize and extract_action_items
TranscriptionInputs ==
    { EmptyDict, [metadata |-> [status |-> "completed"]] }
    \cup { [transcription |-> t,
            metadata |-> [status |-> IF t = <<>> THEN "error" ELSE "completed"]] :
             t \in Transcripts }

SummaryInputs ==
    { NoneDict, EmptyDict, [metadata |-> [status |-> "completed"]],
      [summary |-> <<>>, metadata |-> [status |-> "error", error |-> "No transcription text provided"]],
      [summary |-> <<"Sarah", " ", "will", " ", "send", " ", "it", ".">>,
       metadata |-> [status |-> "completed"]] }

\* arguments of generate_report besides the dict process_meeting returned
ReportItems ==
    { <<>>,
      << [task |-> <<"Test", " ", "task">>, assignee |-> <<"John">>,
          deadline |-> <<"tomorrow">>] >>,
      << [task |-> <<"call">>, assignee |-> None],
         [task |-> <<"call">>, deadline |-> None] >>,
      << [task |-> <<"finish", " ", "the", " ", "report", " ", "by", " ", "Friday">>,
          assignee |-> None, deadline |-> <<"Friday">>] >>,
      << [task |-> <<"send", " ", "it">>, assignee |-> <<"Sarah">>, deadline |-> None],
         [task |-> <<"call">>],
         [assignee |-> <<"John">>, deadline |-> <<"tomorrow">>] >> }

ReportSummaries == { <<>>, <<"## Action Items">>, <<"Test", " ", "summary">> }

FullResults ==
    { [transcription |-> [transcription |-> <<"Test", " ", "transcription">>,
                          metadata |-> [status |-> "completed"]],
       summary |-> [summary |-> sm, metadata |-> [status |-> "completed"]],
       action_items |-> [action_items |-> items, metadata |-> [status |-> "completed"]]] :
        sm \in ReportSummaries, items \in ReportItems }

\* a dict with the keys of r outside `keys`
Without(r, keys) == [k \in DOMAIN r \ keys |-> r[k]]

PartialResults ==
    { [invalid |-> <<"data">>] }
    \cup { Without(PkgResults, ks) : ks \in (SUBSET DOMAIN PkgResults) \ {{}} }
    \cup { [transcription |-> EmptyDict, summary |-> EmptyDict, action_items |-> EmptyDict] }

ReportInputs == FullResults \cup PartialResults \cup {PkgAgentResults}

\* a path is the sequence of its components; "/" first makes it absolute and
\* ".." is the parent directory
InitialDirs == { <<>>, <<"..">>, <<"/">>, <<"/", "tmp">> }

NoFiles == <<>>

\* the output_file arguments of save_results: the default, a name that is also
\* used as a directory, a path under a directory that does not exist yet, a path
\* that climbs out of the working directory, and two absolute paths
OutputPaths ==
    { <<"meeting_results.json">>,
      <<"output">>,
      <<"output", "results.json">>,
      <<"..", "escape.json">>,
      <<"/", "tmp", "results.json">>,
      <<"/", "invalid", "path", "results.json">> }

\* a result as src/orchestrator.py returns it, with text that needs escaping
SavedSample ==
    [transcription |-> [transcription |-> <<"said", " ", "\"", "ok", "\"", "\n">>,
                        metadata |-> [duration_seconds |-> 12, status |-> "completed"]],
     summary |-> [summary |-> <<>>, metadata |-> [status |-> "error", error |-> "len"]],
     action_items |-> [action_items |-> << [task |-> <<"call">>, assignee |-> None] >>,
                       metadata |-> [items_found |-> 1, status |-> "completed"]]]

\* the results arguments of save_results
SaveInputs ==
    { SavedSample, [test |-> <<"data">>], EmptyDict, [test |-> Unserialisable] }

(***************************************************************************)
(* State                                                                   *)
(***************************************************************************)
VARIABLES
    variant,      \* which orchestrator this is: "root" or "pkg"
    api_key,      \* the configured openai_api_key (a str or None)
    files,        \* the audio and output files on disk
    temp_files,   \* how many temporary wav files are on disk
    agents,       \* the specialised agent fields of the orchestrator: which
                  \* instance each holds, 0 for None
    pc,           \* where the running process_meeting call of "root" stands
    frame,        \* the local variables of that call that are bound
    calls,        \* the stage methods the last process_meeting call has invoked
    notified,     \* the AutoGen agents that call has sent a message to
    stage,        \* the last call of a stage method: arguments, what the
                  \* chat-completion call did, result, backends run
    results,      \* the dict the last process_meeting call returned, NoneDict while
                  \* one is running and after one that raised
    ret,          \* the last orchestrator operation: name, argument, outcome
    last_report,  \* history of generate_report, kept by HistorySpec only: the last
                  \* call (argument, outcome) and the outcome of the call before it
                  \* when that had the same argument
    dirs,         \* the directories that exist
    disk,         \* the output files that exist, each with its contents
    upload_dir,   \* src/app.py: the names in UPLOAD_DIR, each with the file it names
    inodes,       \* the contents of the files created in UPLOAD_DIR, open files
                  \* that were removed included
    requests      \* the POST /process requests: where each stands, its upload, its
                  \* open file, its response

vars == <<variant, api_key, files, temp_files, agents, pc, frame, calls, notified,
          stage, results, ret, last_report, dirs, disk, upload_dir, inodes, requests>>

\* the state of the web application
web_vars == <<upload_dir, inodes, requests>>

\* a request that has not arrived yet
NewRequest == [pc |-> "new"]

\* no chat-completion call belongs to the stage
NoLlm == [kind |-> "none"]

NoStage == [name |-> "none", transcription |-> EmptyDict, summary |-> NoneDict,
            llm |-> NoLlm, result |-> EmptyDict, ran |-> <<>>]

NoRet == [op |-> "none", arg |-> EmptyDict, raised |-> "", value |-> EmptyDict]

NoReport == [op |-> "none", arg |-> EmptyDict, raised |-> "", value |-> <<>>,
             again |-> FALSE, between |-> FALSE, prev_raised |-> "", prev_value |-> <<>>]

\* what last_report becomes when generate_report(r) returns or raises g
ReportRecord(r, g, last, op_before) ==
    [op |-> "generate_report", arg |-> r, raised |-> g.raised, value |-> g.value,
     again |-> (last.op = "generate_report" /\ last.arg = r),
     between |-> (op_before /= "generate_report"),
     prev_raised |-> IF last.op = "generate_report" /\ last.arg = r
                     THEN last.raised ELSE g.raised,
     prev_value |-> IF last.op = "generate_report" /\ last.arg = r
                    THEN last.value ELSE g.value]

Init ==
    /\ variant \in {"root", "pkg"}
    /\ api_key \in ApiKeys
    /\ files = AudioOnDisk
    /\ temp_files = 0
    \* root: __init__ calls _setup_agents; pkg: __init__ sets the three to None
    /\ agents = IF variant = "root" THEN _setup_specialized_agents(Unset) ELSE Unset
    /\ pc = "idle"
    /\ frame = EmptyDict
    /\ calls = <<>>
    /\ notified = <<>>
    /\ stage = NoStage
    /\ results = NoneDict
    /\ ret = NoRet
    /\ last_report = NoReport
    /\ dirs = InitialDirs
    /\ disk = NoFiles
    /\ upload_dir = NoFiles
    /\ inodes = <<>>
    /\ requests = [r \in 1..MaxRequests |-> NewRequest]

(***************************************************************************)
(* process_meeting                                                         *)
(***************************************************************************)
\* src/meeting_assistant/orchestrator.py: process_meeting, the whole call
PkgProcessMeeting(audio_file_path) ==
    /\ variant = "pkg"
    /\ pc = "idle"
    /\ IF RejectsMissingFile(variant, audio_file_path, files)
       THEN /\ ret' = [op |-> "process_meeting", arg |-> audio_file_path,
                       raised |-> "FileNotFoundError", value |-> EmptyDict]
            /\ results' = NoneDict
            /\ UNCHANGED agents
       ELSE /\ agents' = _setup_specialized_agents(agents)
            /\ ret' = [op |-> "process_meeting", arg |-> audio_file_path,
                       raised |-> "", value |-> PkgResults]
            /\ results' = PkgResults
    /\ calls' = <<>>
    /\ notified' = <<>>
    /\ stage' = NoStage
    /\ UNCHANGED <<web_vars, last_report, dirs, disk, variant, api_key, files, temp_files, pc, frame>>

\* src/orchestrator.py: process_meeting is entered
RootProcessMeeting(audio_file_path) ==
    /\ variant = "root"
    /\ pc = "idle"
    /\ IF RejectsMissingFile(variant, audio_file_path, files)
       THEN /\ ret' = [op |-> "process_meeting", arg |-> audio_file_path,
                       raised |-> "FileNotFoundError", value |-> EmptyDict]
            /\ pc' = "idle"
       ELSE /\ ret' = [op |-> "process_meeting", arg |-> audio_file_path,
                       raised |-> "", value |-> EmptyDict]
            /\ pc' = "transcribe"
    /\ frame' = EmptyDict
    /\ calls' = <<>>
    /\ notified' = <<>>
    /\ stage' = NoStage
    /\ results' = NoneDict
    /\ UNCHANGED <<web_vars, last_report, dirs, disk, variant, api_key, files, temp_files, agents>>

\* Step 1: self.transcription_agent.transcribe(audio_file_path), then the notification
RootTranscribe ==
    /\ pc = "transcribe"
    /\ \E env \in TranscribeEnvs :
         \E r \in {transcribe(ret.arg, files, env)}, left \in {TempLeft(ret.arg, files, env)} :
            /\ left => temp_files < MaxTemp
            /\ temp_files' = IF left THEN temp_files + 1 ELSE temp_files
            /\ frame' = frame @@ ("transcription_result" :> r)
            /\ stage' = [name |-> "transcribe", transcription |-> EmptyDict,
                         summary |-> NoneDict, llm |-> NoLlm, result |-> r,
                         ran |-> <<"speech">>]
    /\ calls' = Append(calls, "transcribe")
    /\ notified' = Append(notified, "transcription_agent")
    /\ pc' = NextStep(pc, frame')
    /\ UNCHANGED <<web_vars, last_report, dirs, disk, variant, api_key, files, agents, results, ret>>

\* Step 2: self.summarization_agent.summarize(transcription_result)
RootSummarize ==
    /\ pc = "summarize"
    /\ \E llm \in SummaryLlm :
         \E r \in {summarize(frame.transcription_result, api_key, llm)} :
            /\ frame' = frame @@ ("summary_result" :> r.result)
            /\ stage' = [name |-> "summarize", transcription |-> frame.transcription_result,
                         summary |-> NoneDict, llm |-> llm, result |-> r.result,
                         ran |-> r.ran]
    /\ calls' = Append(calls, "summarize")
    /\ notified' = Append(notified, "summarization_agent")
    /\ pc' = NextStep(pc, frame')
    /\ UNCHANGED <<web_vars, last_report, dirs, disk, variant, api_key, files, temp_files, agents, results, ret>>

\* Step 3: self.action_item_extraction_agent.extract_action_items(
\*             transcription_result, summary_result)
RootExtract ==
    /\ pc = "extract_action_items"
    /\ \E llm \in ExtractLlm :
         \E r \in {extract_action_items(frame.transcription_result, frame.summary_result,
                                         api_key, llm)} :
            /\ frame' = frame @@ ("action_items_result" :> r.result)
            /\ stage' = [name |-> "extract_action_items",
                         transcription |-> frame.transcription_result,
                         summary |-> frame.summary_result, llm |-> llm,
                         result |-> r.result, ran |-> r.ran]
    /\ calls' = Append(calls, "extract_action_items")
    /\ notified' = Append(notified, "action_item_agent")
    /\ pc' = NextStep(pc, frame')
    /\ UNCHANGED <<web_vars, last_report, dirs, disk, variant, api_key, files, temp_files, agents, results, ret>>

\* the TERMINATE notification and the return statement
RootReturn ==
    /\ pc = "return"
    /\ notified' = Append(notified, "user_proxy")
    /\ ret' = [ret EXCEPT !.value = RootResults(frame)]
    /\ results' = RootResults(frame)
    /\ pc' = "idle"
    /\ UNCHANGED <<web_vars, last_report, dirs, disk, variant, api_key, files, temp_files, agents, frame, calls, stage>>

(***************************************************************************)
(* generate_report, and the stage methods called on their own              *)
(***************************************************************************)
\* GenerateReport were generate_report to build the report in an attribute of the
\* orchestrator that it never clears
GenerateReportAccumulating ==
    /\ pc = "idle"
    /\ results /= NoneDict
    /\ \E g \in {generate_report(variant, results)} :
          ret' = [op |-> "generate_report", arg |-> results,
                  raised |-> g.raised, value |-> last_report.value \o g.value]
    /\ stage' = NoStage
    /\ UNCHANGED <<web_vars, dirs, disk, variant, api_key, files, temp_files, agents, pc, frame, calls,
                   notified, results>>

\* report = orchestrator.generate_report(results), as main.py, app.py and sample.py
\* call it on the dict process_meeting returned
GenerateReport ==
    /\ pc = "idle"
    /\ results /= NoneDict
    /\ \E g \in {generate_report(variant, results)} :
          ret' = [op |-> "generate_report", arg |-> results,
                  raised |-> g.raised, value |-> g.value]
    /\ stage' = NoStage
    /\ UNCHANGED <<web_vars, dirs, disk, variant, api_key, files, temp_files, agents, pc, frame, calls,
                   notified, results>>

\* generate_report called on any dict, as the tests call it
CallGenerateReport ==
    /\ pc = "idle"
    /\ \E r \in ReportInputs :
         \E g \in {generate_report(variant, r)} :
            ret' = [op |-> "generate_report", arg |-> r,
                    raised |-> g.raised, value |-> g.value]
    /\ stage' = NoStage
    /\ UNCHANGED <<web_vars, dirs, disk, variant, api_key, files, temp_files, agents, pc, frame, calls,
                   notified, results>>

\* save_results(results, output_file) called on any dict, as the tests call it
CallSaveResults ==
    /\ pc = "idle"
    /\ \E r \in SaveInputs, output_file \in OutputPaths :
         \E saved \in {save_results(variant, r, output_file, dirs, disk)} :
            /\ ret' = [op |-> "save_results",
                       arg |-> [results |-> r, output_file |-> output_file],
                       raised |-> saved.raised, value |-> EmptyDict]
            /\ dirs' = saved.dirs
            /\ disk' = saved.disk
    /\ stage' = NoStage
    /\ UNCHANGED <<web_vars, variant, api_key, files, temp_files, agents, pc, frame, calls,
                   notified, results>>

CallTranscribe ==
    /\ variant = "root"
    /\ pc = "idle"
    /\ \E path \in AudioPaths, env \in TranscribeEnvs :
         \E left \in {TempLeft(path, files, env)} :
            /\ left => temp_files < MaxTemp
            /\ temp_files' = IF left THEN temp_files + 1 ELSE temp_files
            /\ stage' = [name |-> "transcribe", transcription |-> EmptyDict,
                         summary |-> NoneDict, llm |-> NoLlm,
                         result |-> transcribe(path, files, env), ran |-> <<"speech">>]
    /\ ret' = NoRet
    /\ UNCHANGED <<web_vars, last_report, dirs, disk, variant, api_key, files, agents, pc, frame, calls, notified, results>>

CallSummarize ==
    /\ variant = "root"
    /\ pc = "idle"
    /\ \E t \in TranscriptionInputs, llm \in SummaryLlm :
         \E r \in {summarize(t, api_key, llm)} :
            stage' = [name |-> "summarize", transcription |-> t, summary |-> NoneDict,
                      llm |-> llm, result |-> r.result, ran |-> r.ran]
    /\ ret' = NoRet
    /\ UNCHANGED <<web_vars, last_report, dirs, disk, variant, api_key, files, temp_files, agents, pc, frame, calls,
                   notified, results>>

CallExtract ==
    /\ variant = "root"
    /\ pc = "idle"
    /\ \E t \in TranscriptionInputs, sm \in SummaryInputs, llm \in ExtractLlm :
         \E r \in {extract_action_items(t, sm, api_key, llm)} :
            stage' = [name |-> "extract_action_items", transcription |-> t, summary |-> sm,
                      llm |-> llm, result |-> r.result, ran |-> r.ran]
    /\ ret' = NoRet
    /\ UNCHANGED <<web_vars, last_report, dirs, disk, variant, api_key, files, temp_files, agents, pc, frame, calls,
                   notified, results>>

\* the orchestrator in use: process_meeting, then the report of what it returned
Next ==
    \/ \E p \in AudioPaths : PkgProcessMeeting(p)
    \/ \E p \in AudioPaths : RootProcessMeeting(p)
    \/ RootTranscribe
    \/ RootSummarize
    \/ RootExtract
    \/ RootReturn
    \/ GenerateReport /\ UNCHANGED last_report

Spec == Init /\ [][Next]_vars

\* Next with the history of generate_report calls recorded
HistoryNext ==
    \/ \E p \in AudioPaths : PkgProcessMeeting(p)
    \/ \E p \in AudioPaths : RootProcessMeeting(p)
    \/ RootTranscribe
    \/ RootSummarize
    \/ RootExtract
    \/ RootReturn
    \/ /\ GenerateReport
       /\ last_report' = ReportRecord(ret'.arg, ret', last_report, ret.op)

\* the orchestrator built without an API key, as main.py builds it when
\* OPENAI_API_KEY is not set
HistoryInit == Init /\ api_key = None

HistorySpec == HistoryInit /\ [][HistoryNext]_vars

\* extract_action_items called on a transcript alone, on an agent without an API
\* key: the regex extractor
CallExtractRegex ==
    /\ variant = "root"
    /\ pc = "idle"
    /\ \E text \in RegexTexts :
         \E t \in {[transcription |-> text, metadata |-> [status |-> "completed"]]} :
            \E r \in {extract_action_items(t, NoneDict, api_key, NoLlm)} :
                stage' = [name |-> "extract_action_items", transcription |-> t,
                          summary |-> NoneDict, llm |-> NoLlm, result |-> r.result,
                          ran |-> r.ran]
    /\ ret' = NoRet
    /\ UNCHANGED <<web_vars, last_report, dirs, disk, variant, api_key, files, temp_files,
                   agents, pc, frame, calls, notified, results>>

RegexInit == Init /\ variant = "root" /\ api_key = None

RegexSpec == RegexInit /\ [][CallExtractRegex]_vars

\* orchestrator.save_results(results, output_file) on the dict process_meeting
\* returned, as main.py calls it
SaveResults ==
    /\ pc = "idle"
    /\ results /= NoneDict
    /\ \E output_file \in OutputPaths :
         \E saved \in {save_results(variant, results, output_file, dirs, disk)} :
            /\ ret' = [op |-> "save_results",
                       arg |-> [results |-> results, output_file |-> output_file],
                       raised |-> saved.raised, value |-> EmptyDict]
            /\ dirs' = saved.dirs
            /\ disk' = saved.disk
    /\ stage' = NoStage
    /\ UNCHANGED <<web_vars, last_report, variant, api_key, files, temp_files, agents, pc,
                   frame, calls, notified, results>>

\* the packaged orchestrator in use: process_meeting, then the report and the
\* saved file of what it returned
PkgNext ==
    \/ \E p \in AudioPaths : PkgProcessMeeting(p)
    \/ GenerateReport /\ UNCHANGED last_report
    \/ SaveResults

PkgInit == Init /\ variant = "pkg" /\ api_key = None

PkgSpec == PkgInit /\ [][PkgNext]_vars

\* the stage methods as functions of their arguments
StageNext ==
    \/ CallTranscribe
    \/ CallSummarize
    \/ CallExtract

StageSpec == Init /\ [][StageNext]_vars

\* generate_report as a function of its argument
ReportNext == CallGenerateReport /\ UNCHANGED last_report

ReportSpec == Init /\ [][ReportNext]_vars

\* save_results as a function of its arguments and the file system
SaveNext == CallSaveResults /\ UNCHANGED last_report

\* save_results reads no API key
SaveInit == Init /\ api_key = None

SaveSpec == SaveInit /\ [][SaveNext]_vars

(***************************************************************************)
(* The web application (src/app.py): POST /process.  The handler is a      *)
(* coroutine; `await file.read()` is the one point where the event loop    *)
(* may run another request, so a request is two steps: up to the await,    *)
(* and from the await to the response.                                     *)
(***************************************************************************)
\* UPLOAD_DIR / name
UploadPath(name) == <<"uploads">> \o name

ResultsFile(filename) == UploadPath(<<"results_">> \o filename \o <<".json">>)

ReportFile(filename) == UploadPath(<<"report_">> \o filename \o <<".md">>)

\* open(path, "w") or open(path, "wb"): the file is created, or truncated when the
\* name exists
Open(path, dir, nodes) ==
    IF path \in DOMAIN dir
    THEN [handle |-> dir[path], dir |-> dir, nodes |-> [nodes EXCEPT ![dir[path]] = <<>>]]
    ELSE [handle |-> Len(nodes) + 1, dir |-> dir @@ (path :> Len(nodes) + 1),
          nodes |-> Append(nodes, <<>>)]

\* write(data) on a file opened at offset 0, flushed when the file is closed
Overlay(old, data) == data \o SubSeq(old, Len(data) + 1, Len(old))

WriteAt(handle, data, nodes) == [nodes EXCEPT ![handle] = Overlay(@, data)]

\* with open(path, "w") as f: f.write(text)
WriteFile(path, text, fs) ==
    [dir |-> Open(path, fs.dir, fs.nodes).dir,
     nodes |-> WriteAt(Open(path, fs.dir, fs.nodes).handle, text,
                       Open(path, fs.dir, fs.nodes).nodes)]

\* what the recogniser makes of the file at path
Heard(path, dir, nodes) ==
    IF path \in DOMAIN dir /\ nodes[dir[path]] /= <<>>
    THEN [fail |-> "none", text |-> nodes[dir[path]], duration |-> 12]
    ELSE [fail |-> "AudioFile", text |-> <<>>, duration |-> 12]

\* process_meeting of src/orchestrator.py, the whole call, on an orchestrator
\* that was given no API key (key = None): no chat-completion call is made
Staged(t, key) ==
    [transcription_result |-> t,
     summary_result |-> summarize(t, key, NoLlm).result,
     action_items_result |->
         extract_action_items(t, summarize(t, key, NoLlm).result, key, NoLlm).result]

Processed(path, dir, nodes, key) ==
    RootResults(Staged(transcribe(path, DOMAIN dir, Heard(path, dir, nodes)), key))

\* the two output files written, then os.remove(file_path) and the response
Respond(filename, returned, fs) ==
    IF UploadPath(filename) \in DOMAIN fs.dir
    THEN [response |-> [status |-> "success", results |-> returned],
          dir |-> [q \in DOMAIN fs.dir \ {UploadPath(filename)} |-> fs.dir[q]],
          nodes |-> fs.nodes]
    ELSE \* os.remove raises FileNotFoundError: the except branch
         [response |-> [status |-> "error", results |-> EmptyDict],
          dir |-> fs.dir, nodes |-> fs.nodes]

Saved(filename, returned, dir, nodes) ==
    Respond(filename, returned,
            WriteFile(ReportFile(filename),
                      ReportText(generate_report("root", returned).value),
                      WriteFile(ResultsFile(filename),
                                JsonDump(TagResults(returned)).text,
                                [dir |-> dir, nodes |-> nodes])))

\* the handler from the await to its return
Serve(filename, content, handle, dir, nodes, key) ==
    Saved(filename,
          Processed(UploadPath(filename), dir, WriteAt(handle, content, nodes), key),
          dir, WriteAt(handle, content, nodes))

\* the response of a request that is served with no other request around
Alone(filename, content, key) ==
    Serve(filename, content, 1, UploadPath(filename) :> 1, << <<>> >>, key).response

\* lines 52-54: the upload is opened for writing and the handler awaits file.read()
Receive(r) ==
    /\ requests[r].pc = "new"
    /\ \E filename \in UploadNames, content \in UploadContents :
         \E o \in {Open(UploadPath(filename), upload_dir, inodes)} :
            /\ upload_dir' = o.dir
            /\ inodes' = o.nodes
            /\ requests' = [requests EXCEPT ![r] =
                              [pc |-> "reading", filename |-> filename,
                               content |-> content, handle |-> o.handle]]
    /\ UNCHANGED <<variant, api_key, files, temp_files, agents, pc, frame, calls,
                   notified, stage, results, ret, last_report, dirs, disk>>

\* lines 55-94: the content is written, the meeting processed, the results and the
\* report saved, the upload removed and the response returned
Complete(r) ==
    /\ requests[r].pc = "reading"
    /\ \E s \in {Serve(requests[r].filename, requests[r].content, requests[r].handle,
                        upload_dir, inodes, api_key)} :
            /\ upload_dir' = s.dir
            /\ inodes' = s.nodes
            /\ requests' = [requests EXCEPT ![r] =
                              [pc |-> "done", filename |-> requests[r].filename,
                               content |-> requests[r].content,
                               handle |-> requests[r].handle,
                               response |-> s.response]]
    /\ UNCHANGED <<variant, api_key, files, temp_files, agents, pc, frame, calls,
                   notified, stage, results, ret, last_report, dirs, disk>>

WebNext ==
    \/ \E r \in 1..MaxRequests : Receive(r)
    \/ \E r \in 1..MaxRequests : Complete(r)

\* app.py builds the orchestrator of src/orchestrator.py; no key in the form or
\* in the environment
WebInit == Init /\ variant = "root" /\ api_key = None

WebSpec == WebInit /\ [][WebNext]_vars

(***************************************************************************)
(* The command line (src/main.py): main with --audio, the other arguments  *)
(* at their defaults.  The process ends with status 0 when main returns    *)
(* and with status 1 when an exception leaves it.                          *)
(***************************************************************************)
\* the stage methods process_meeting calls, in order
StageOrder == <<"transcribe", "summarize", "extract_action_items">>

DefaultOutput == <<"meeting_results.json">>

DefaultReport == <<"meeting_report.md">>

\* what a run of main has done: exit status, whether an orchestrator was built,
\* the stage methods called, the files written
MainOutcome(status, built, stages, written) ==
    [exit |-> status, built |-> built, stages |-> stages, written |-> written]

\* lines 45-51 once process_meeting has returned `returned`: save_results, then
\* the report written to args.report
MainSaved(returned, saved) ==
    IF saved.raised /= ""
    THEN [outcome |-> MainOutcome(1, TRUE, StageOrder, {}), disk |-> saved.disk]
    ELSE [outcome |-> MainOutcome(0, TRUE, StageOrder, {DefaultOutput, DefaultReport}),
          disk |-> (DefaultReport :> ReportText(generate_report("root", returned).value))
                     @@ saved.disk]

Main(audio) ==
    /\ variant = "root"
    /\ pc = "idle"
    /\ IF audio \notin files
       THEN \* lines 21-23: the message is printed and main returns
            /\ ret' = [op |-> "main", arg |-> [audio |-> audio], raised |-> "",
                       value |-> MainOutcome(0, FALSE, <<>>, {})]
            /\ UNCHANGED <<temp_files, results, calls, notified, disk>>
       ELSE \E env \in TranscribeEnvs :
              \E r \in {RootResults(Staged(transcribe(audio, files, env), api_key))},
                 left \in {TempLeft(audio, files, env)} :
                \E m \in {MainSaved(r, RootSave(r, DefaultOutput, dirs, disk))} :
                    /\ left => temp_files < MaxTemp
                    /\ temp_files' = IF left THEN temp_files + 1 ELSE temp_files
                    /\ results' = r
                    /\ calls' = StageOrder
                    /\ notified' = <<"transcription_agent", "summarization_agent",
                                     "action_item_agent", "user_proxy">>
                    /\ disk' = m.disk
                    /\ ret' = [op |-> "main", arg |-> [audio |-> audio], raised |-> "",
                               value |-> m.outcome]
    /\ stage' = NoStage
    /\ UNCHANGED <<web_vars, last_report, dirs, variant, api_key, files, agents, pc, frame>>

CliNext == \E audio \in AudioPaths : Main(audio)

\* main.py builds the orchestrator of src/orchestrator.py; no key on the command
\* line or in the environment
CliInit == Init /\ variant = "root" /\ api_key = None

CliSpec == CliInit /\ [][CliNext]_vars

(***************************************************************************)
(* Properties                                                              *)
(***************************************************************************)

Status(envelope) == envelope.metadata.status

\* the dict returned by a process_meeting call that is still the last operation
Returned == pc = "idle" /\ results /= NoneDict

\* C1: process_meeting on a path that names no file raises FileNotFoundError: no
\* stage is invoked, nothing is returned and no file is created, whichever
\* orchestrator it is.
C1_MissingFileRaises ==
    (ret.op = "process_meeting" /\ ret.arg \notin files) =>
        /\ calls = <<>>
        /\ results = NoneDict
        /\ files = AudioOnDisk
        /\ pc = "idle" => ret.raised = "FileNotFoundError"

\* C2: one process_meeting call of src/orchestrator.py on an existing file runs
\* transcribe, summarize and extract_action_items once each, in that order, each
\* after the one before has returned, whatever status the earlier stages report.
C2_StagesInOrder ==
    (variant = "root" /\ ret.op = "process_meeting" /\ ret.arg \in files) =>
        /\ pc = "transcribe" => calls = <<>> /\ DOMAIN frame = {}
        /\ pc = "summarize" =>
             /\ calls = SubSeq(StageOrder, 1, 1)
             /\ DOMAIN frame = {"transcription_result"}
        /\ pc = "extract_action_items" =>
             /\ calls = SubSeq(StageOrder, 1, 2)
             /\ DOMAIN frame = {"transcription_result", "summary_result"}
        /\ pc \in {"return", "idle"} =>
             /\ calls = StageOrder
             /\ DOMAIN frame = {"transcription_result", "summary_result",
                                "action_items_result"}

\* C2 witness: a call whose transcription failed has returned after all three stages
C2_Witness ==
    /\ variant = "root" /\ ret.op = "process_meeting" /\ ret.arg \in files
    /\ Returned
    /\ Status(results.transcription) = "error"
    /\ calls = StageOrder

\* C3: when transcription returns an error envelope, the same call returns a
\* summary and an action-item envelope that both have status error, and no
\* backend has run for either.
C3_ErrorPropagates ==
    (variant = "root" /\ pc \in {"return", "idle"} /\ stage.name = "extract_action_items"
       /\ Status(frame.transcription_result) = "error") =>
        /\ Status(frame.summary_result) = "error"
        /\ Status(frame.action_items_result) = "error"
        /\ stage.ran = <<>>

\* the payload of the envelope a stage method returned
Payload(st) ==
    CASE st.name = "transcribe" -> st.result.transcription
      [] st.name = "summarize" -> st.result.summary
      [] st.name = "extract_action_items" -> st.result.action_items

\* C4: every envelope transcribe, summarize or extract_action_items returns
\* carries an error detail exactly when its status is error, and then its payload
\* is empty.
C4_EnvelopeInvariant ==
    stage.name /= "none" =>
        /\ ("error" \in DOMAIN stage.result.metadata) <=> (Status(stage.result) = "error")
        /\ Status(stage.result) \in {"completed", "error"}
        /\ Status(stage.result) = "error" => Payload(stage) = <<>>

\* C4 witness: summarize returned an error envelope after its backend had run
C4_Witness ==
    /\ stage.name = "summarize"
    /\ Status(stage.result) = "error"
    /\ stage.ran /= <<>>

\* C5: summarize of a transcription whose text is empty or missing returns status
\* error and an empty summary and runs no backend, with or without an API key.
C5_SummarizeEmpty ==
    (stage.name = "summarize"
       /\ Get(stage.transcription, "transcription", <<>>) = <<>>) =>
        /\ Status(stage.result) = "error"
        /\ stage.result.summary = <<>>
        /\ stage.ran = <<>>

\* C5 witness: the text is missing and an API key is configured
C5_Witness ==
    /\ stage.name = "summarize"
    /\ "transcription" \notin DOMAIN stage.transcription
    /\ Truthy(api_key)
    /\ Status(stage.result) = "error"

\* C6: extract_action_items returns status error and no items and runs no backend
\* whenever the transcript text is empty and the summary is absent or has an
\* empty summary text.
C6_ExtractEmpty ==
    (stage.name = "extract_action_items"
       /\ Get(stage.transcription, "transcription", <<>>) = <<>>
       /\ \/ stage.summary = NoneDict
          \/ /\ stage.summary /= NoneDict
             /\ "summary" \in DOMAIN stage.summary
             /\ stage.summary["summary"] = <<>>) =>
        /\ Status(stage.result) = "error"
        /\ stage.result.action_items = <<>>
        /\ stage.ran = <<>>

MissingField(r) == \E k \in 1..Len(required_fields) : required_fields[k] \notin DOMAIN r

\* C7: generate_report raises KeyError exactly when the result lacks one of the
\* keys transcription, summary, action_items, whichever orchestrator it is.
C7_MissingKeyRaises ==
    ret.op = "generate_report" => (MissingField(ret.arg) <=> ret.raised = "KeyError")

\* C8: process_meeting on an existing file does not raise, and what it returns
\* holds transcription, summary and action_items, each with a metadata status that
\* is completed or error.
C8_FullyShapedResult ==
    (ret.op = "process_meeting" /\ ret.arg \in files) =>
        /\ ret.raised = ""
        /\ pc = "idle" =>
             /\ results /= NoneDict
             /\ results = ret.value
             /\ {"transcription", "summary", "action_items"} \subseteq DOMAIN results
             /\ \A k \in {"transcription", "summary", "action_items"} :
                  /\ "metadata" \in DOMAIN results[k]
                  /\ "status" \in DOMAIN results[k].metadata
                  /\ results[k].metadata.status \in {"completed", "error"}

\* C8 witness: the call returned with a completed transcription and a failed summary
C8_Witness ==
    /\ variant = "root" /\ ret.op = "process_meeting" /\ ret.arg \in files
    /\ Returned
    /\ Status(results.transcription) = "completed"
    /\ Status(results.summary) = "error"

HeadingStmts == {"title", "summary_heading", "action_items_heading", "transcription_heading"}

IsHeading(piece) == piece.stmt \in HeadingStmts

ItemStmts == {"task", "assignee", "deadline", "no_items"}

\* the action items generate_report lists for a result dict
ListedItems(r) == Get(Get(r, "action_items", EmptyDict), "action_items", <<>>)

\* the number of pieces the action items section takes
SectionLen(items) == IF items = <<>> THEN 1 ELSE Len(ItemLines(1, items[1])) * Len(items)

\* C9: for a result that holds transcription, summary and action_items,
\* generate_report emits the headings '# Meeting Assistant Report',
\* '## Meeting Summary', '## Action Items' and '## Full Transcription' once each,
\* in that order, with the summary text, the item entries and the transcript each
\* directly under its own heading.
C9_ReportSections ==
    (ret.op = "generate_report" /\ ~MissingField(ret.arg)) =>
        /\ ret.raised = ""
        /\ SelectSeq(ret.value, IsHeading) =
             << Piece("title", Title),
                Piece("summary_heading", SummaryHeading),
                Piece("action_items_heading", ActionItemsHeading),
                Piece("transcription_heading", TranscriptionHeading) >>
        /\ Len(ret.value) = 6 + SectionLen(ListedItems(ret.arg))
        /\ ret.value[1].stmt = "title"
        /\ ret.value[2].stmt = "summary_heading"
        /\ ret.value[3].stmt = "summary"
        /\ "summary" \in DOMAIN ret.arg.summary =>
             HasPrefix(ret.value[3].text, ret.arg.summary.summary)
        /\ ret.value[4].stmt = "action_items_heading"
        /\ \A k \in 1..SectionLen(ListedItems(ret.arg)) : ret.value[4 + k].stmt \in ItemStmts
        /\ \A i \in 1..Len(ListedItems(ret.arg)) :
             \E k \in 1..SectionLen(ListedItems(ret.arg)) :
                /\ ret.value[4 + k].stmt = "task"
                /\ ret.value[4 + k].text =
                     <<ToString(i), ". **Task**: ">>
                       \o Str(Get(ListedItems(ret.arg)[i], "task", <<"No task specified">>))
                       \o <<"\n">>
        /\ ret.value[Len(ret.value) - 1].stmt = "transcription_heading"
        /\ ret.value[Len(ret.value)].stmt = "transcription"
        /\ "transcription" \in DOMAIN ret.arg.transcription =>
             HasPrefix(ret.value[Len(ret.value)].text, ret.arg.transcription.transcription)

\* C9 witness: a report of several items whose summary text reads like a heading
C9_Witness ==
    /\ ret.op = "generate_report" /\ ~MissingField(ret.arg) /\ ret.raised = ""
    /\ "summary" \in DOMAIN ret.arg.summary
    /\ ret.arg.summary.summary = <<"## Action Items">>
    /\ Len(ListedItems(ret.arg)) >= 2
    /\ Len(SelectSeq(ReportText(ret.value), LAMBDA t : t = "## Action Items")) = 2

Absent(item, key) == key \notin DOMAIN item \/ item[key] = None

\* C10: the report numbers the action items 1..n in list order, prints
\* 'Unassigned' for an item whose assignee is absent or null and 'No deadline' for
\* an item whose deadline is absent or null, also for the items the pattern-based
\* extractor emits.
C10_ItemEntries ==
    (ret.op = "generate_report" /\ ret.raised = "") =>
        \A i \in 1..Len(ListedItems(ret.arg)) :
            /\ ret.value[3 * i + 2].stmt = "task"
            /\ ret.value[3 * i + 2].text[1] = ToString(i)
            /\ Absent(ListedItems(ret.arg)[i], "assignee") =>
                 ret.value[3 * i + 3].text = <<"   **Assignee**: ", "Unassigned", "\n">>
            /\ Absent(ListedItems(ret.arg)[i], "deadline") =>
                 ret.value[3 * i + 4].text = <<"   **Deadline**: ", "No deadline", "\n", "\n">>

\* the summary text generate_report reads from a result dict
SummaryText(r) == Get(Get(r, "summary", EmptyDict), "summary", <<>>)

\* the body of the Meeting Summary section: the summary piece without the blank
\* line that closes it
SummaryBody(pieces) == Strip(SelectSeq(pieces, LAMBDA p : p.stmt = "summary")[1].text)

\* C11: when the summary text of the result is empty, as in the error envelope
\* of summarize, the Meeting Summary section of the report holds a placeholder
\* sentence and not an empty body; when it is not empty the section holds
\* exactly the summary text.
C11_SummaryPlaceholder ==
    (ret.op = "generate_report" /\ ret.raised = "" /\ "summary" \in DOMAIN ret.arg
       /\ "summary" \in DOMAIN ret.arg.summary) =>
        IF SummaryText(ret.arg) = <<>>
        THEN SummaryBody(ret.value) /= <<>>
        ELSE SummaryBody(ret.value) = Strip(SummaryText(ret.arg))

Blocked(path) == path \in dirs \/ \E a \in Ancestors(path) : a \in DOMAIN disk

\* C13: after save_results has returned, the file at the output path exists, with
\* the directories above it, and its text parses back to the result that was
\* passed in; src/meeting_assistant/orchestrator.py: save_results does return for
\* every result json can encode and every relative path the file system lets it
\* write.
C13_SaveRoundTrip ==
    ret.op = "save_results" =>
        /\ ret.raised = "" =>
             /\ ret.arg.output_file \in DOMAIN disk
             /\ Ancestors(ret.arg.output_file) \subseteq dirs
             /\ JsonLoad(disk[ret.arg.output_file])
                  = Parsed(TagResults(ret.arg.results), <<>>)
        /\ (variant = "pkg" /\ ~IsAbsolute(ret.arg.output_file)
              /\ JsonDump(TagResults(ret.arg.results)).raised = ""
              /\ ~Blocked(ret.arg.output_file)) => ret.raised = ""

\* C13 witness: the packaged orchestrator saved a result with None, numbers and
\* quoted text under a directory it had to create
C13_Witness ==
    /\ variant = "pkg"
    /\ ret.op = "save_results" /\ ret.raised = ""
    /\ ret.arg.output_file = <<"output", "results.json">>
    /\ ret.arg.results = SavedSample
    /\ <<"output">> \in dirs
    /\ <<"output", "results.json">> \in DOMAIN disk

\* C14: no save ever overwrites or removes an output that an earlier save wrote:
\* every file on disk stays there with its text, and a save that returns has
\* added a file under a name not used before.
C14_NeverOverwrites ==
    [][ /\ \A p \in DOMAIN disk : p \in DOMAIN disk' /\ disk'[p] = disk[p]
        /\ (ret'.op = "save_results" /\ ret'.raised = "") => DOMAIN disk' /= DOMAIN disk ]_vars

\* whether a relative path leaves the working directory through ".." components
Climbs(path) ==
    \E n \in 1..Len(path) : 2 * Cardinality({i \in 1..n : path[i] = ".."}) > n

\* C15: save_results raises ValueError, and has created no file, for every
\* destination outside the output root: an absolute path, or a relative path
\* that climbs out through "..".
C15_RejectsEscapingPaths ==
    (ret.op = "save_results"
       /\ (IsAbsolute(ret.arg.output_file) \/ Climbs(ret.arg.output_file))) =>
        /\ ret.raised = "ValueError"
        /\ ret.arg.output_file \notin DOMAIN disk

\* C16: a save_results call that returns has written two documents into the
\* destination: the result as JSON and the report of generate_report as Markdown.
C16_TwoDocuments ==
    (ret.op = "save_results" /\ ret.raised = "" /\ ~MissingField(ret.arg.results)) =>
        /\ ret.arg.output_file \in DOMAIN disk
        /\ JsonLoad(disk[ret.arg.output_file]).ok
        /\ \E p \in DOMAIN disk :
              /\ p /= ret.arg.output_file
              /\ Parent(p) = Parent(ret.arg.output_file)
              /\ disk[p] = ReportText(generate_report(variant, ret.arg.results).value)

\* the generative backend is out of reach: no API key, or the call raises
GenerativeUnavailable == ~Truthy(api_key) \/ stage.llm.kind = "raise"

\* the text summarize reads from its argument
SummarizedText == Get(stage.transcription, "transcription", <<>>)

\* the text extract_action_items was called on
ExtractedText == ExtractionText(stage.transcription, stage.summary)

\* C17: in summarize and in extract_action_items, on every non-empty input, when
\* no API key is configured or the generative call raises, the deterministic
\* fallback runs on the same text, what it returns is the payload of the envelope,
\* and the status is "completed" (so no exception has left the stage).
C17_FallbackUsed ==
    /\ (stage.name = "summarize" /\ Truthy(SummarizedText) /\ GenerativeUnavailable) =>
          /\ Status(stage.result) = "completed"
          /\ stage.result.summary = _fallback_summary(SummarizedText)
          /\ stage.ran[Len(stage.ran)] = "fallback"
    /\ (stage.name = "extract_action_items"
          /\ Truthy(ExtractedText)
          /\ GenerativeUnavailable) =>
          /\ Status(stage.result) = "completed"
          /\ stage.result.action_items = _extract_with_regex(ExtractedText)
          /\ stage.ran[Len(stage.ran)] = "regex"

\* C17 witness: with an API key set the generative call raised, and the regex
\* extractor found an item in the same text
C17_Witness ==
    /\ stage.name = "extract_action_items"
    /\ Truthy(api_key)
    /\ stage.llm.kind = "raise"
    /\ stage.ran = <<"llm", "regex">>
    /\ Status(stage.result) = "completed"
    /\ stage.result.action_items /= <<>>

\* C18: extract_action_items on a non-empty input returns status "completed" with
\* an empty list when the generative response is not the expected JSON object,
\* and status "error" only on an empty input: neither backend lets an exception
\* out on a non-empty text, the generative path falling back to the regex one.
C18_ErrorOnlyOnEmpty ==
    stage.name = "extract_action_items" =>
        /\ (Truthy(ExtractedText) /\ Truthy(api_key)
              /\ stage.llm.kind \in {"unparsable", "array"}) =>
              /\ Status(stage.result) = "completed"
              /\ stage.result.action_items = <<>>
        /\ Status(stage.result) = "error" => ~Truthy(ExtractedText)

\* the triple that identifies an action item
Triple(item) ==
    <<Get(item, "task", None), Get(item, "assignee", None), Get(item, "deadline", None)>>

\* C19: the list one extract_action_items call returns, on the generative path as
\* on the regex path, never holds two items with the same task, assignee and
\* deadline.
C19_NoDuplicateItems ==
    stage.name = "extract_action_items" =>
        \A i, j \in 1..Len(stage.result.action_items) :
            i < j => Triple(stage.result.action_items[i]) /= Triple(stage.result.action_items[j])

\* C20: on every non-empty transcript, summarize on its fallback path returns
\* status "completed" with a summary no longer than the transcript, also when the
\* transcript does not end with a period or has fewer than five sentences.
C20_FallbackNotLonger ==
    (stage.name = "summarize" /\ Truthy(SummarizedText) /\ GenerativeUnavailable) =>
        /\ Status(stage.result) = "completed"
        /\ stage.result.metadata.summary_length = StrLen(stage.result.summary)
        /\ StrLen(stage.result.summary) <= StrLen(SummarizedText)

\* C21: concurrent POST /process requests are independent under every
\* interleaving, two uploads with the same file name included: a request that has
\* finished has the response it would have had alone, and the upload a request
\* has open and has yet to process is still on disk under its name.
C21_RequestsIndependent ==
    \A r \in 1..MaxRequests :
        /\ requests[r].pc = "done" =>
              requests[r].response = Alone(requests[r].filename, requests[r].content, api_key)
        /\ requests[r].pc = "reading" =>
              /\ UploadPath(requests[r].filename) \in DOMAIN upload_dir
              /\ upload_dir[UploadPath(requests[r].filename)] = requests[r].handle

\* C22: when transcribe has returned for an input that is not a wav file, the
\* temporary wav file _convert_to_wav created is gone, after a success and after
\* every failure alike: no temporary file is left on disk.
C22_TempFileRemoved ==
    (stage.name = "transcribe"
       /\ audio_format(stage.result.metadata.file) /= <<"wav">>) => temp_files = 0

\* C23: the dict process_meeting returns has, next to the three stage entries, a
\* top-level "metadata" entry with the audio source under "audio_file" and a
\* "timestamp".
C23_TopLevelMetadata ==
    Returned =>
        /\ {"transcription", "summary", "action_items"} \subseteq DOMAIN results
        /\ "metadata" \in DOMAIN results
        /\ {"audio_file", "timestamp"} \subseteq DOMAIN results.metadata
        /\ results.metadata.audio_file = ret.arg

\* C24: no item of the list extract_action_items returns has an empty or missing
\* task, on the regex path and on the generative path alike.
C24_NoEmptyTask ==
    stage.name = "extract_action_items" =>
        \A i \in 1..Len(stage.result.action_items) :
            /\ "task" \in DOMAIN stage.result.action_items[i]
            /\ Truthy(stage.result.action_items[i].task)

\* the item lists the extraction agents of the repository produce: the regex
\* extractor of src/ and the agent of src/meeting_assistant
ProducedItems ==
    { _extract_with_regex(t) : t \in Transcripts } \cup { PkgExtraction.action_items }

\* the due date an item carries, under either key
DueDate(item) ==
    IF "due_date" \in DOMAIN item THEN item.due_date ELSE Get(item, "deadline", None)

IsDeadlineLine(piece) == piece.stmt = "deadline"

\* C25: every item an extraction agent produces and generate_report consumes
\* carries its due date under "deadline", never under "due_date", and a due date
\* that is present appears on the Deadline line of its item.
C25_DeadlineKey ==
    (ret.op = "generate_report" /\ ret.raised = ""
       /\ ListedItems(ret.arg) \in ProducedItems) =>
        \A i \in 1..Len(ListedItems(ret.arg)) :
            /\ "due_date" \notin DOMAIN ListedItems(ret.arg)[i]
            /\ DueDate(ListedItems(ret.arg)[i]) /= None =>
                  SelectSeq(ret.value, IsDeadlineLine)[i].text
                    = <<"   **Deadline**: ">> \o DueDate(ListedItems(ret.arg)[i])
                        \o <<"\n", "\n">>

\* C26: when the path given to --audio names no existing file, the command ends
\* with a non-zero exit status, having built no orchestrator, called no stage and
\* written neither the JSON file nor the report.
C26_MissingAudioExit ==
    (ret.op = "main" /\ ret.arg.audio \notin files) =>
        /\ ret.value.exit /= 0
        /\ ~ret.value.built
        /\ ret.value.stages = <<>>
        /\ ret.value.written = {}

\* whether task is what is left of the sentence after some phrase of it
IsRemainder(task, sentence) ==
    \E k \in 1..Len(sentence) : task = Strip(Unterminated(Drop(sentence, k)))

\* the sentences of a text in which some pattern matches
Matching(text) ==
    {i \in 1..Len(Sentences(text)) : FirstPattern(Strip(Sentences(text)[i])).ok}

JohnText ==
    <<"John", ":", " ", "I", " ", "need to", " ", "finish", " ", "the", " ",
      "report", " ", "by", " ", "Friday", ".">>

\* C27: the regex extractor yields at most one item per sentence, none for a
\* sentence that matches no pattern; the pattern that decides is the first of the
\* four that matches, and the task of an item is the remainder of its sentence
\* after the matched phrase, never the leading word of a subject-plus-modal match.
\* The transcript "John: I need to finish the report by Friday." yields one item
\* with task "finish the report by Friday", deadline "Friday" and no assignee.
C27_FirstPatternTask ==
    (stage.name = "extract_action_items" /\ stage.ran = <<"regex">>
       /\ stage.summary = NoneDict) =>
        /\ Len(stage.result.action_items) <= Cardinality(Matching(SummarizedText))
        /\ \A i \in Matching(SummarizedText) :
              Pattern1(Strip(Sentences(SummarizedText)[i])).ok =>
                \E k \in 1..Len(stage.result.action_items) :
                    stage.result.action_items[k].task
                      = Strip(Pattern1(Strip(Sentences(SummarizedText)[i])).g1)
        /\ \A k \in 1..Len(stage.result.action_items) :
              \E i \in Matching(SummarizedText) :
                  IsRemainder(stage.result.action_items[k].task,
                              Sentences(SummarizedText)[i])
        /\ SummarizedText = JohnText =>
              stage.result.action_items
                = << [task |-> <<"finish", " ", "the", " ", "report", " ", "by", " ", "Friday">>,
                      assignee |-> None, deadline |-> <<"Friday">>] >>

\* C28: in the packaged orchestrator the three agent fields are None from
\* construction; a process_meeting call that passes the file check leaves all
\* three set, keeping every instance that was there; a call rejected for a
\* missing file, generate_report and save_results leave the three fields as they
\* were.
C28_AgentsSetOnce ==
    /\ variant = "pkg" => agents = Unset
    /\ [][ variant = "pkg" =>
             IF ret'.op = "process_meeting" /\ ret'.raised = ""
             THEN \A f \in AgentFields :
                     /\ agents'[f] /= 0
                     /\ agents[f] /= 0 => agents'[f] = agents[f]
             ELSE agents' = agents ]_vars

\* C28 witness: after a call that set the agents, a call for a missing file was
\* rejected and the three instances are still there
C28_Witness ==
    /\ variant = "pkg"
    /\ ret.op = "process_meeting" /\ ret.raised = "FileNotFoundError"
    /\ \A f \in AgentFields : agents[f] = 1

=============================================================================
